---- MODULE Spec2Model ----
(***************************************************************************)
(* A model of rez's memcached layer (src/rez/utils/memcached.py): the      *)
(* Client wrapper around memcache.Client (qualified keys, hashed physical  *)
(* keys, (key, value) entries, soft/hard flush, the miss sentinel) and the *)
(* memcached() memoization decorator.                                      *)
(*                                                                         *)
(* Strings are sequences of ASCII codes, so that formatting, slicing and   *)
(* the regular expression of _debug_key_hash are computed, not assumed.    *)
(* Python values are records with a "type" field.                          *)
(***************************************************************************)
EXTENDS Integers, Sequences, FiniteSets, Bags, TLC

(***************************************************************************)
(* Bounds of the model.                                                    *)
(***************************************************************************)
\* md5 is modelled by a checksum over this many digests, so that the
\* collisions md5 permits happen within the bounds.
Md5Space == 3
\* uuid4() calls (soft flushes and liveness probes) in one behaviour.
MaxUuid == 2
\* Length of the long logical keys beyond the store's key length limit.
LongExtra == 5
\* The largest value of a server's counter of requests.
MaxStat == 2
\* The clock of the poll loop: time.time() in units of 1/UnitsPerSecond
\* seconds, up to MaxTime units.
UnitsPerSecond == 2
MaxTime == 3

(***************************************************************************)
(* Python values.                                                          *)
(***************************************************************************)
PyNone == [type |-> "NoneType"]
PyInt(n) == [type |-> "int", v |-> n]
PyTuple(s) == [type |-> "tuple", items |-> s]
PyStr(s) == [type |-> "str", chars |-> s]
PyList(s) == [type |-> "list", items |-> s]
\* Client.miss, the only instance of Client._Miss
Miss == [type |-> "_Miss"]
DoNotCache(r) == [type |-> "DoNotCache", result |-> r]

(***************************************************************************)
(* Strings.                                                                *)
(***************************************************************************)
\* "[0-9a-zA-Z]"
IsAlnum(ch) == (ch \in 48..57) \/ (ch \in 65..90) \/ (ch \in 97..122)

\* s[:n]
Prefix(s, n) == IF Len(s) <= n THEN s ELSE SubSeq(s, 1, n)

\* n copies of ch
Repeat(ch, n) == [i \in 1..n |-> ch]

\* one lowercase hexadecimal digit
HexDigit(d) == IF d < 10 THEN 48 + d ELSE 87 + d

Zeros28 == Repeat(48, 28)

\* 32 hexadecimal digits, the leading four of which spell n
Hex32(n) ==
    <<HexDigit((n \div 4096) % 16), HexDigit((n \div 256) % 16),
      HexDigit((n \div 16) % 16), HexDigit(n % 16)>> \o Zeros28

\* The sum of the character codes of s: a string is a function from
\* positions to positive codes, that is a bag, whose cardinality is that sum.
Checksum(s) == BagCardinality(s)

\* re.sub("[^0-9a-zA-Z]+", '_', s): every maximal run of other characters
\* becomes one underscore (the first character of the run is replaced, the
\* rest of the run is dropped).
ReSub(s) ==
    LET Dropped == 0
        marked == [i \in 1..Len(s) |->
                      IF IsAlnum(s[i]) THEN s[i]
                      ELSE IF i > 1 /\ ~IsAlnum(s[i - 1]) THEN Dropped
                      ELSE 95]
        Kept(ch) == ch # Dropped
    IN  SelectSeq(marked, Kept)

(***************************************************************************)
(* Program constants.                                                      *)
(***************************************************************************)
\* rez.vendor.memcache.memcache.SERVER_MAX_KEY_LENGTH
SERVER_MAX_KEY_LENGTH == 250
\* rez.__version__, which is defined outside these sources; "2.0" stands for it
version == <<50, 46, 48>>
\* '127.0.0.1:11211' and '127.0.0.1:11212' stand for any server URIs.
Endpoint == "127.0.0.1:11211"
Endpoint2 == "127.0.0.1:11212"
Endpoints == {Endpoint, Endpoint2}

(***************************************************************************)
(* The clients: A and B are used directly; W1, W2 and W0 are the private   *)
(* clients of three memcached() decorators of one function. W0 is built    *)
(* with servers=None or servers=[] (memcaching disabled).                  *)
(***************************************************************************)
DirectClients == {"A", "B"}
EnabledWrappers == {"W1", "W2"}
Wrappers == EnabledWrappers \cup {"W0"}
Clients == DirectClients \cup Wrappers

\* Logical keys of the direct callers: "._" and "_." (equal after
\* sanitisation), and two keys longer than the store's limit that differ
\* only in their last two characters ("...xyz", "...xzy").
KeyDotUnd == <<46, 95>>
KeyUndDot == <<95, 46>>
KeyLongYZ == Repeat(120, SERVER_MAX_KEY_LENGTH + LongExtra - 2) \o <<121, 122>>
KeyLongZY == Repeat(120, SERVER_MAX_KEY_LENGTH + LongExtra - 2) \o <<122, 121>>
Keys == {KeyDotUnd, KeyUndDot}
\* Keys at and beyond the limit: with 228 characters the debug key is
\* exactly SERVER_MAX_KEY_LENGTH long before any flush.
LongKeys == {Repeat(120, SERVER_MAX_KEY_LENGTH - 22), Repeat(120, SERVER_MAX_KEY_LENGTH - 21),
             KeyLongYZ, KeyLongZY}
\* Values the direct callers store: None and 1.
Values == {PyNone, PyInt(1)}
\* Arguments of the memoized function.
Args == {1, 2, 3}

VARIABLES
    servers,    \* Client.servers: None, or a list of endpoints
    debug,      \* Client.debug
    current,    \* Client.current, the generation tag
    _client,    \* Client._client is not None
    store,      \* the memcached server: physical key -> stored object
    nuuid,      \* number of uuid4() calls so far
    pc,         \* wrapper position: "idle", or "miss" between get and set
    nargs,      \* arguments of the wrapper call in progress
    call,       \* the last step of a wrapper or of test_servers: arguments,
                \* result, requests
    up,         \* up[e]: the server at endpoint e answers
    stats,      \* the servers' counters: stats.n[e] are those of endpoint e
    cli,        \* the process of the memcache command: its configuration, its
                \* position, what its last step printed, its exit status, and
                \* prev_entry of poll
    destroyed   \* history: the last operation was a flush_all that dropped
                \* an entry

vars == <<servers, debug, current, _client, store, nuuid, pc, nargs, call, up, stats,
          cli, destroyed>>

(***************************************************************************)
(* Key codec. The operators take the fields of the client they read       *)
(* (tag is self.current, dbg is self.debug) and the server's content st.   *)
(***************************************************************************)
\* uuid4().hex of the n-th call: a token no earlier call returned.
uuid4_hex(n) == Hex32(n)

\* md5(key).hexdigest(): 32 hex digits, a function of the key alone, and
\* not injective.
md5_hexdigest(key) == Hex32(Checksum(key) % Md5Space)

\* A qualified key without the generation tag.
qualified_key_no_tag(tag, key) == version \o <<58, 58>> \o key

\* "%s:%s:%s" % (__version__, self.current, key)
qualified_key(tag, key) == version \o <<58>> \o tag \o <<58>> \o key

key_hash(key) == md5_hexdigest(key)

\* A debug key that is not cut at the store's limit.
debug_key_hash_untruncated(key) ==
    ReSub(Prefix(key_hash(key), 16) \o <<58>> \o key)

debug_key_hash(key) ==
    LET h == Prefix(key_hash(key), 16)
        value == h \o <<58>> \o key
    IN  ReSub(Prefix(value, SERVER_MAX_KEY_LENGTH))

\* self.key_hasher
key_hasher(dbg, key) == IF dbg THEN debug_key_hash(key) ELSE key_hash(key)

\* hashed_key: the physical key set, get and delete send for a logical key
hashed_key(dbg, tag, key) == key_hasher(dbg, qualified_key(tag, key))

\* A client that is false only when it has no list of servers.
nonzero_unless_None(c) == servers[c].type # "NoneType"

\* bool(self.servers)
nonzero(c) == servers[c].type = "list" /\ Len(servers[c].items) > 0

\* The i-th endpoint of self.servers.
server_at(c, i) == servers[c].items[i]

\* Every server of the client answers.
reachable(c) == \A i \in 1..Len(servers[c].items) : up[server_at(c, i)]

\* The client has servers, and they answer.
answered(c) == nonzero(c) /\ reachable(c)

\* The endpoints configured for client c.
Configured(c) == {server_at(c, i) : i \in 1..Len(servers[c].items)}

(***************************************************************************)
(* The server (memcache.Client over one endpoint).                         *)
(***************************************************************************)
\* memcache.Client.get: the stored object, or None
server_get(st, k) == IF k \in DOMAIN st THEN st[k] ELSE PyNone

server_set(st, k, val) == [x \in DOMAIN st \cup {k} |-> IF x = k THEN val ELSE st[x]]

server_delete(st, k) == [x \in DOMAIN st \ {k} |-> st[x]]

server_flush_all(st) == << >>

\* The counters of a server that the program reads, of its get, set and
\* flush_all commands, and their values after a 'stats reset'.
StatNames == {"cmd_get", "cmd_set", "cmd_flush"}
stats_baseline == [f \in StatNames |-> 0]

\* The server that the native client sends the request of a physical key
\* to: the one server, or one that the key's hash selects.
route(c, k) ==
    IF Len(servers[c].items) = 1 THEN server_at(c, 1)
    ELSE server_at(c, 1 + (Checksum(k) % Len(servers[c].items)))

\* The counters after a command f of the server at e. A specification in
\* which nothing reads the counters does not keep them (st.observed is
\* false): no operation but get_stats depends on them.
server_count(st, e, f) ==
    IF st.observed THEN [st EXCEPT !.n[e][f] = @ + 1] ELSE st

\* The counter of command f at e is below the largest value.
countable(st, e, f) == st.observed => st.n[e][f] < MaxStat

\* The counters after 'stats reset' on the servers E.
server_stats_reset(st, E) ==
    [st EXCEPT !.n = [e \in Endpoints |-> IF e \in E THEN stats_baseline ELSE @[e]]]

\* The counters after flush_all on the servers E.
server_count_flush_all(st, E) ==
    IF st.observed
    THEN [st EXCEPT !.n = [e \in Endpoints |->
                              IF e \in E THEN [@[e] EXCEPT !.cmd_flush = @ + 1] ELSE @[e]]]
    ELSE st

\* The requests, as sent.
ReqGet(conn, k) == [cmd |-> "get", conn |-> conn, key |-> k]
ReqSet(conn, k, val, time, mcl) ==
    [cmd |-> "set", conn |-> conn, key |-> k, val |-> val, time |-> time,
     min_compress_len |-> mcl]

\* The record of a wrapper step: the wrapper, its argument, the value
\* returned (NoVal when the step does not return), the requests sent and
\* the number of calls of the target function.
Call(op, w, a, result, reqs, calls) ==
    [op |-> op, w |-> w, a |-> a, result |-> result, reqs |-> reqs, calls |-> calls]
NoVal == [type |-> "absent"]

\* The memcache command before it is run, with config.memcached_uri: no
\* options, nothing printed, no exit status yet (-1), no prev_entry.
NoCommand(memcached_uri) ==
    [config |-> memcached_uri, pc |-> "none", opts |-> "none", out |-> <<>>, err |-> <<>>,
     rates |-> {}, rows |-> <<>>, status |-> -1, prev_entry |-> PyNone, now |-> 0]
\* The step ended with an exception that went to the caller.
Raised == [type |-> "exception"]
\* A Python set.
PySet(S) == [type |-> "set", elems |-> S]

\* How the native client reports a request to a server that does not answer:
\* with an exception, or with the value of a request that found nothing
\* (None for a get, 0 for a set).
native_failure == {"raises", "returns_nothing"}

(***************************************************************************)
(* Client.                                                                 *)
(***************************************************************************)
\* A set that stores the value alone.
set_entry_bare(tag, key, val) == val

\* Client.set: the entry stored is the pair (qualified key, val).
set_entry(tag, key, val) == PyTuple(<<PyStr(qualified_key(tag, key)), val>>)

\* The server after Client.set.
set_store(st, dbg, tag, key, val) ==
    server_set(st, hashed_key(dbg, tag, key), set_entry(tag, key, val))

set_request(dbg, tag, key, val, time, min_compress_len) ==
    ReqSet("shared", hashed_key(dbg, tag, key), set_entry(tag, key, val),
           time, min_compress_len)

\* A get that takes any false value (None, 0, "") for a miss.
get_result_none_is_miss(st, dbg, tag, key) ==
    LET qkey == qualified_key(tag, key)
        entry == server_get(st, key_hasher(dbg, qkey))
    IN  IF entry.type = "tuple" /\ Len(entry.items) = 2
        THEN IF entry.items[1] = PyStr(qkey) /\ entry.items[2] # PyNone
             THEN entry.items[2] ELSE Miss
        ELSE Miss

\* A get that does not compare the embedded key.
get_result_any_key(st, dbg, tag, key) ==
    LET entry == server_get(st, key_hasher(dbg, qualified_key(tag, key)))
    IN  IF entry.type = "tuple" /\ Len(entry.items) = 2 THEN entry.items[2] ELSE Miss

\* Client.get: what get(key) returns.
get_result(st, dbg, tag, key) ==
    LET qkey == qualified_key(tag, key)
        entry == server_get(st, key_hasher(dbg, qkey))
    IN  IF entry.type = "tuple" /\ Len(entry.items) = 2
        THEN IF entry.items[1] = PyStr(qkey) THEN entry.items[2] ELSE Miss
        ELSE Miss

get_request(dbg, tag, key) == ReqGet("shared", hashed_key(dbg, tag, key))

set(c, key, val, time, min_compress_len) ==
    /\ nonzero(c)
    /\ reachable(c)
    /\ store' = set_store(store, debug[c], current[c], key, val)
    /\ _client' = [_client EXCEPT ![c] = TRUE]
    /\ destroyed' = FALSE
    /\ countable(stats, route(c, hashed_key(debug[c], current[c], key)), "cmd_set")
    /\ stats' = server_count(stats, route(c, hashed_key(debug[c], current[c], key)), "cmd_set")
    /\ UNCHANGED <<servers, debug, current, nuuid, pc, nargs, call, up, cli>>

\* get changes nothing but the connection; it returns get_result.
get(c, key) ==
    /\ nonzero(c)
    /\ reachable(c)
    /\ _client' = [_client EXCEPT ![c] = TRUE]
    /\ destroyed' = FALSE
    /\ countable(stats, route(c, hashed_key(debug[c], current[c], key)), "cmd_get")
    /\ stats' = server_count(stats, route(c, hashed_key(debug[c], current[c], key)), "cmd_get")
    /\ UNCHANGED <<servers, debug, current, store, nuuid, pc, nargs, call, up, cli>>

delete_request(dbg, tag, key) ==
    [cmd |-> "delete", conn |-> "shared", key |-> hashed_key(dbg, tag, key)]

\* A delete that takes the key for one of the initial generation tag.
delete_call_initial_tag(c, key) ==
    /\ nonzero(c)
    /\ reachable(c)
    /\ store' = server_delete(store, hashed_key(debug[c], <<>>, key))
    /\ _client' = [_client EXCEPT ![c] = TRUE]
    /\ destroyed' = FALSE
    /\ UNCHANGED <<servers, debug, current, nuuid, pc, nargs, up, stats, cli>>

\* Client.delete: one delete of the physical key
delete_call(c, key) ==
    /\ nonzero(c)
    /\ reachable(c)
    /\ store' = server_delete(store, hashed_key(debug[c], current[c], key))
    /\ _client' = [_client EXCEPT ![c] = TRUE]
    /\ destroyed' = FALSE
    /\ UNCHANGED <<servers, debug, current, nuuid, pc, nargs, up, stats, cli>>

delete(c, key) == delete_call(c, key) /\ UNCHANGED call

\* Client.delete with a record of the step: it returns None.
delete_recorded(c, key) ==
    /\ delete_call(c, key)
    /\ call' = Call("Client.delete", c, 0, PyNone,
                    <<delete_request(debug[c], current[c], key)>>, 0)

\* What a request of the client returns to its caller when no server answers
\* it: the exception of the native client, or else the value that the code
\* makes of a native request that found nothing.
unanswered_result(failure, nothing) == IF failure = "raises" THEN Raised ELSE nothing

\* self.client of a request that no server answers: the native client exists
\* once a request of it has returned; where the request raised, it exists
\* unless the exception came from Client_(self.servers).
unanswered_client(c, failure) ==
    IF failure = "raises" THEN {_client[c], TRUE} ELSE {TRUE}

\* A request of the client that no server answers (the client has no
\* servers, or one of them is down): nothing in set, get and delete looks
\* at self.servers or catches an exception. The store is as before.
unanswered(c, op, request, nothing) ==
    /\ ~answered(c)
    /\ \E failure \in native_failure :
           /\ call' = Call(op, c, 0, unanswered_result(failure, nothing), <<request>>, 0)
           /\ \E made \in unanswered_client(c, failure) :
                  _client' = [_client EXCEPT ![c] = made]
    /\ destroyed' = FALSE
    /\ UNCHANGED <<servers, debug, current, store, nuuid, pc, nargs, up, stats, cli>>

\* set returns None whatever the native set returned.
set_unanswered(c, key, val, time, min_compress_len) ==
    unanswered(c, "Client.set",
               set_request(debug[c], current[c], key, val, time, min_compress_len), PyNone)

\* get makes self.miss of the None of the native get.
get_unanswered(c, key) ==
    unanswered(c, "Client.get", get_request(debug[c], current[c], key), Miss)

delete_unanswered(c, key) ==
    unanswered(c, "Client.delete", delete_request(debug[c], current[c], key), PyNone)

\* A soft flush that goes back to the initial tag.
flush_tag_reused(dbg, n) == <<>>

\* The tag of a soft flush: uuid4().hex, after "flushed" in debug mode.
flush_tag(dbg, n) ==
    IF dbg THEN <<102, 108, 117, 115, 104, 101, 100>> \o uuid4_hex(n) ELSE uuid4_hex(n)

\* A hard flush that resets the statistics and forgets the flush_all.
flush_hard_only_resets(c) ==
    /\ nonzero(c)
    /\ reachable(c)
    /\ store' = store
    /\ _client' = [_client EXCEPT ![c] = TRUE]
    /\ destroyed' = FALSE
    /\ stats' = server_stats_reset(stats, Configured(c))
    /\ UNCHANGED <<servers, debug, current, nuuid, pc, nargs, call, up, cli>>

\* A hard flush that resets the statistics before it flushes.
flush_hard_call_resets_first(c) ==
    /\ nonzero(c)
    /\ reachable(c)
    /\ store' = server_flush_all(store)
    /\ _client' = [_client EXCEPT ![c] = TRUE]
    /\ destroyed' = (store # << >>)
    /\ stats' = server_count_flush_all(server_stats_reset(stats, Configured(c)), Configured(c))
    /\ UNCHANGED <<servers, debug, current, nuuid, pc, nargs, call, up>>

\* flush(hard=True) in a step of its caller: flush_all, then reset_stats
flush_hard_call(c) ==
    /\ nonzero(c)
    /\ reachable(c)
    /\ store' = server_flush_all(store)
    /\ _client' = [_client EXCEPT ![c] = TRUE]
    /\ destroyed' = (store # << >>)
    /\ stats' = server_stats_reset(server_count_flush_all(stats, Configured(c)), Configured(c))
    /\ UNCHANGED <<servers, debug, current, nuuid, pc, nargs, call, up>>

\* flush(hard=True) as a step of its own
flush_hard(c) == flush_hard_call(c) /\ UNCHANGED cli

\* A soft flush that keeps the tag in the class: every client has it.
flush_soft_of_class(c) ==
    /\ nuuid < MaxUuid
    /\ current' = [c2 \in Clients |-> flush_tag(debug[c], nuuid + 1)]
    /\ nuuid' = nuuid + 1
    /\ destroyed' = FALSE
    /\ UNCHANGED <<servers, debug, _client, store, pc, nargs, call, up, stats, cli>>

\* flush(hard=False): a new generation tag, and nothing else
flush_soft(c) ==
    /\ nuuid < MaxUuid
    /\ current' = [current EXCEPT ![c] = flush_tag(debug[c], nuuid + 1)]
    /\ nuuid' = nuuid + 1
    /\ destroyed' = FALSE
    /\ UNCHANGED <<servers, debug, _client, store, pc, nargs, call, up, stats, cli>>

\* A reset_stats that resets the first server alone.
reset_stats_first_server(c) ==
    /\ answered(c)
    /\ stats' = server_stats_reset(stats, {server_at(c, 1)})
    /\ _client' = [_client EXCEPT ![c] = TRUE]
    /\ destroyed' = FALSE
    /\ UNCHANGED <<servers, debug, current, store, nuuid, pc, nargs, call, up, cli>>

\* A reset_stats that also goes back to the initial generation tag.
reset_stats_call_and_tag(c) ==
    /\ answered(c)
    /\ stats' = server_stats_reset(stats, Configured(c))
    /\ current' = [current EXCEPT ![c] = <<>>]
    /\ _client' = [_client EXCEPT ![c] = TRUE]
    /\ destroyed' = FALSE
    /\ UNCHANGED <<servers, debug, store, nuuid, pc, nargs, call, up>>

\* reset_stats: self.client.get_stats(stat_args="reset"), which sends
\* 'stats reset' to every server
reset_stats_call(c) ==
    /\ answered(c)
    /\ stats' = server_stats_reset(stats, Configured(c))
    /\ _client' = [_client EXCEPT ![c] = TRUE]
    /\ destroyed' = FALSE
    /\ UNCHANGED <<servers, debug, current, store, nuuid, pc, nargs, call, up>>

\* reset_stats as a step of its own
reset_stats(c) == reset_stats_call(c) /\ UNCHANGED cli

\* What get_stats returns: a (server, counters) pair per server that
\* answers, in the order of self.servers.
get_stats_result(c) ==
    SelectSeq([i \in 1..Len(servers[c].items) |-> <<server_at(c, i), stats.n[server_at(c, i)]>>],
              LAMBDA pair : up[pair[1]])

\* get_stats changes nothing but the connection; it returns get_stats_result.
get_stats_call(c) ==
    /\ answered(c)
    /\ _client' = [_client EXCEPT ![c] = TRUE]
    /\ destroyed' = FALSE
    /\ UNCHANGED <<servers, debug, current, store, nuuid, pc, nargs, call, up, stats>>

\* get_stats as a step of its own
get_stats(c) == get_stats_call(c) /\ UNCHANGED cli

\* The keys of the probes of test_servers: one uuid4().hex per server.
probe_key(i) == uuid4_hex(nuuid + i)

\* The server after the probes of the first n servers: client.set(key, 1) on
\* each that answers.
RECURSIVE probed(_, _)
probed(c, n) ==
    IF n = 0 THEN store
    ELSE IF up[server_at(c, n)]
         THEN server_set(probed(c, n - 1), probe_key(n), PyInt(1))
         ELSE probed(c, n - 1)

\* client.get(key) of the i-th probe.
probe_get(c, i) ==
    IF up[server_at(c, i)] THEN server_get(probed(c, i), probe_key(i)) ELSE PyNone

\* A probe that takes every configured server for a responder.
responders_all(c, n) == {server_at(c, i) : i \in 1..n}

\* responders after the first n servers: those whose get returned 1
responders(c, n) == {server_at(c, i) : i \in {j \in 1..n : probe_get(c, j) = PyInt(1)}}

\* The requests of the probes of the first n servers, each on the
\* connection of Client_([server]).
RECURSIVE probe_requests(_, _)
probe_requests(c, n) ==
    IF n = 0 THEN <<>>
    ELSE probe_requests(c, n - 1)
             \o <<ReqSet(server_at(c, n), probe_key(n), PyInt(1), 0, 0),
                  ReqGet(server_at(c, n), probe_key(n))>>

\* The counters after the probes of the first n servers: a set and a get on
\* each that answers.
RECURSIVE probes_counted(_, _)
probes_counted(c, n) ==
    IF n = 0 \/ ~stats.observed THEN stats
    ELSE IF up[server_at(c, n)]
         THEN server_count(server_count(probes_counted(c, n - 1), server_at(c, n), "cmd_set"),
                           server_at(c, n), "cmd_get")
         ELSE probes_counted(c, n - 1)

\* The first server whose probe ends test_servers with an exception, or 0.
raising_probe(c, failure) ==
    LET down == {i \in 1..Len(servers[c].items) : ~up[server_at(c, i)]}
    IN  IF failure = "raises" /\ down # {}
        THEN CHOOSE i \in down : \A j \in down : i <= j
        ELSE 0

\* test_servers: per server, a connection of its own, a random key, set
\* and get of the value 1; the servers whose get returns 1. Nothing catches
\* an exception of the native client.
test_servers(c) ==
    /\ servers[c].type = "list"
    /\ nuuid + Len(servers[c].items) <= MaxUuid
    /\ \A e \in Configured(c) : countable(stats, e, "cmd_set") /\ countable(stats, e, "cmd_get")
    /\ \E failure \in native_failure :
           LET n == Len(servers[c].items)
               k == raising_probe(c, failure)
           IN  IF k = 0
               THEN /\ store' = probed(c, n)
                    /\ stats' = probes_counted(c, n)
                    /\ nuuid' = nuuid + n
                    /\ call' = Call("test_servers", c, 0, PySet(responders(c, n)),
                                    probe_requests(c, n), 0)
               ELSE /\ store' = probed(c, k - 1)
                    /\ stats' = probes_counted(c, k - 1)
                    /\ nuuid' = nuuid + k
                    /\ call' = Call("test_servers", c, 0, Raised,
                                    Append(probe_requests(c, k - 1),
                                           ReqSet(server_at(c, k), probe_key(k), PyInt(1), 0, 0)),
                                    0)
    /\ destroyed' = FALSE
    /\ UNCHANGED <<servers, debug, current, _client, pc, nargs, up, cli>>

\* The server at an endpoint stops answering, and answers again.
endpoint_fails(e) ==
    /\ up[e]
    /\ up' = [up EXCEPT ![e] = FALSE]
    /\ destroyed' = FALSE
    /\ UNCHANGED <<servers, debug, current, _client, store, nuuid, pc, nargs, call, stats, cli>>

endpoint_recovers(e) ==
    /\ ~up[e]
    /\ up' = [up EXCEPT ![e] = TRUE]
    /\ destroyed' = FALSE
    /\ UNCHANGED <<servers, debug, current, _client, store, nuuid, pc, nargs, call, stats, cli>>

(***************************************************************************)
(* memcached(servers, key=None, from_cache, to_cache, time,                *)
(* min_compress_len, debug): the decorator and the function it wraps.      *)
(***************************************************************************)
\* The target function: 1 -> 11, 2 -> None, 3 -> DoNotCache(13).
func(a) == IF a = 1 THEN PyInt(11)
           ELSE IF a = 2 THEN PyNone
           ELSE DoNotCache(PyInt(10 + a))

\* The decorator's time and min_compress_len arguments.
decorator_args == [time |-> 60, min_compress_len |-> 1024]

\* to_cache(value, *nargs): the value is cached with its argument
to_cache(value, a) == PyTuple(<<value, PyInt(a)>>)

\* from_cache(value, *nargs)
from_cache(value, a) == IF value.type = "tuple" THEN value.items[1] ELSE value

\* A cache key that leaves the arguments out.
default_key_no_args(a) == <<40, 39, 109, 46, 102, 39, 41>>

\* repr(('m.f', (a,), ())), as "('m.f', (a,), ())"
default_key(a) ==
    <<40, 39, 109, 46, 102, 39, 44, 32, 40, 48 + a, 44, 41, 44, 32, 40, 41, 41>>

\* A decorator that caches unless servers is None.
enabled_unless_None(w) == servers[w] # PyNone

\* if servers: (the decorator caches only when built with servers)
enabled(w) == servers[w].type = "list" /\ Len(servers[w].items) > 0

\* A wrapper that caches every result.
is_DoNotCache_never(result) == FALSE

\* isinstance(result, DoNotCache)
is_DoNotCache(result) == result.type = "DoNotCache"

\* A hit that returns the stored value as it is.
hit_call_undecoded(w, a, result) ==
    Call("hit", w, a, result,
         <<get_request(debug[w], current[w], default_key(a))>>, 0)

\* The return of the wrapper on a cache hit.
hit_call(w, a, result) ==
    Call("hit", w, a, from_cache(result, a),
         <<get_request(debug[w], current[w], default_key(a))>>, 0)

\* wrapper, to the return on a hit, or to the miss of client.get
wrapper(w, a) ==
    /\ enabled(w)
    /\ reachable(w)
    /\ pc[w] = "idle"
    /\ LET cache_key == default_key(a)
           result == get_result(store, debug[w], current[w], cache_key)
       IN  IF result # Miss
           THEN /\ call' = hit_call(w, a, result)
                /\ UNCHANGED <<pc, nargs>>
           ELSE /\ call' = Call("get", w, a, NoVal,
                                <<get_request(debug[w], current[w], cache_key)>>, 0)
                /\ pc' = [pc EXCEPT ![w] = "miss"]
                /\ nargs' = [nargs EXCEPT ![w] = a]
    /\ _client' = [_client EXCEPT ![w] = TRUE]
    /\ destroyed' = FALSE
    /\ countable(stats, route(w, hashed_key(debug[w], current[w], default_key(a))), "cmd_get")
    /\ stats' = server_count(stats, route(w, hashed_key(debug[w], current[w], default_key(a))),
                             "cmd_get")
    /\ UNCHANGED <<servers, debug, current, store, nuuid, up, cli>>

\* The return of the wrapper after a cache miss: the target function is
\* A wrapper that returns what it stored.
miss_call_returns_stored(w, a) ==
    LET cache_key == default_key(a)
        result == func(a)
        cache_result == to_cache(result, a)
    IN  IF is_DoNotCache(result)
        THEN Call("miss", w, a, result.result, <<>>, 1)
        ELSE Call("miss", w, a, cache_result,
                  <<set_request(debug[w], current[w], cache_key, cache_result,
                                decorator_args.time, decorator_args.min_compress_len)>>, 1)

\* run; its result is stored unless it is a DoNotCache.
miss_call(w, a) ==
    LET cache_key == default_key(a)
        result == func(a)
        cache_result == to_cache(result, a)
    IN  IF is_DoNotCache(result)
        THEN Call("miss", w, a, result.result, <<>>, 1)
        ELSE Call("miss", w, a, result,
                  <<set_request(debug[w], current[w], cache_key, cache_result,
                                decorator_args.time, decorator_args.min_compress_len)>>, 1)

\* The store after the wrapper's client.set, if it comes to it.
miss_store(st, w, a) ==
    LET cache_key == default_key(a)
        result == func(a)
        cache_result == to_cache(result, a)
    IN  IF is_DoNotCache(result)
        THEN st
        ELSE set_store(st, debug[w], current[w], cache_key, cache_result)

\* wrapper, from the cache miss to its return
wrapper_miss(w) ==
    /\ pc[w] = "miss"
    /\ ~is_DoNotCache(func(nargs[w])) => reachable(w)
    /\ call' = miss_call(w, nargs[w])
    /\ store' = miss_store(store, w, nargs[w])
    /\ pc' = [pc EXCEPT ![w] = "idle"]
    /\ nargs' = [nargs EXCEPT ![w] = 0]
    /\ destroyed' = FALSE
    /\ ~is_DoNotCache(func(nargs[w])) =>
          countable(stats, route(w, hashed_key(debug[w], current[w], default_key(nargs[w]))),
                    "cmd_set")
    /\ stats' = IF is_DoNotCache(func(nargs[w])) THEN stats
                ELSE server_count(stats,
                                  route(w, hashed_key(debug[w], current[w],
                                                      default_key(nargs[w]))),
                                  "cmd_set")
    /\ UNCHANGED <<servers, debug, current, _client, nuuid, up, cli>>

\* A wrapper that takes a failed get for a miss.
wrapper_get_raises_recomputes(w, a) ==
    /\ enabled(w)
    /\ pc[w] = "idle"
    /\ ~reachable(w)
    /\ call' = Call("get", w, a, NoVal,
                    <<get_request(debug[w], current[w], default_key(a))>>, 0)
    /\ pc' = [pc EXCEPT ![w] = "miss"]
    /\ nargs' = [nargs EXCEPT ![w] = a]
    /\ \E made \in unanswered_client(w, "raises") :
           _client' = [_client EXCEPT ![w] = made]
    /\ destroyed' = FALSE
    /\ UNCHANGED <<servers, debug, current, store, nuuid, up, stats, cli>>

\* wrapper, when client.get raises: nothing catches the exception, which
\* ends the call at 'result = client.get(cache_key)'
wrapper_get_raises(w, a) ==
    /\ enabled(w)
    /\ pc[w] = "idle"
    /\ ~reachable(w)
    /\ call' = Call("raise", w, a, Raised,
                    <<get_request(debug[w], current[w], default_key(a))>>, 0)
    /\ \E made \in unanswered_client(w, "raises") :
           _client' = [_client EXCEPT ![w] = made]
    /\ destroyed' = FALSE
    /\ UNCHANGED <<servers, debug, current, store, nuuid, pc, nargs, up, stats, cli>>

\* wrapper, when client.get found nothing because no server answered: a
\* miss like any other
wrapper_get_unanswered(w, a) ==
    /\ enabled(w)
    /\ pc[w] = "idle"
    /\ ~reachable(w)
    /\ call' = Call("get", w, a, NoVal,
                    <<get_request(debug[w], current[w], default_key(a))>>, 0)
    /\ pc' = [pc EXCEPT ![w] = "miss"]
    /\ nargs' = [nargs EXCEPT ![w] = a]
    /\ _client' = [_client EXCEPT ![w] = TRUE]
    /\ destroyed' = FALSE
    /\ UNCHANGED <<servers, debug, current, store, nuuid, up, stats, cli>>

\* wrapper, from the cache miss to its return, when no server answers the
\* set: the target function has run; the set raises, or it stores nothing
\* and the result is returned
wrapper_miss_unanswered(w) ==
    /\ pc[w] = "miss"
    /\ ~reachable(w)
    /\ ~is_DoNotCache(func(nargs[w]))
    /\ \E failure \in native_failure :
           /\ call' = Call("miss", w, nargs[w], unanswered_result(failure, func(nargs[w])),
                           miss_call(w, nargs[w]).reqs, 1)
           /\ \E made \in unanswered_client(w, failure) :
                  _client' = [_client EXCEPT ![w] = made]
    /\ pc' = [pc EXCEPT ![w] = "idle"]
    /\ nargs' = [nargs EXCEPT ![w] = 0]
    /\ destroyed' = FALSE
    /\ UNCHANGED <<servers, debug, current, store, nuuid, up, stats, cli>>

\* wrapper of a decorator built without servers
wrapper_disabled(w, a) ==
    /\ ~enabled(w)
    /\ call' = Call("disabled", w, a, func(a), <<>>, 1)
    /\ destroyed' = FALSE
    /\ UNCHANGED <<servers, debug, current, _client, store, nuuid, pc, nargs, up, stats, cli>>

\* A forget that flushes the servers.
forget_hard(w) ==
    /\ pc[w] = "idle"
    /\ flush_hard(w)

\* wrapper.forget
forget(w) ==
    /\ pc[w] = "idle"
    /\ flush_soft(w)

(***************************************************************************)
(* The memcache command (rez.cli.memcache) and its client, A, which        *)
(* get_memcached_client() builds from config.memcached_uri.                *)
(***************************************************************************)
\* A server URI given as a string.
PyUri(e) == [type |-> "str", uri |-> e]

\* Values of config.memcached_uri.
ConfigUris ==
    {PyNone, PyList(<<>>), PyUri(Endpoint), PyList(<<Endpoint>>),
     PyList(<<Endpoint, Endpoint2>>)}

\* Client.__init__: [servers] if isinstance(servers, basestring) else servers
init_servers(servers_arg) ==
    IF servers_arg.type = "str" THEN PyList(<<servers_arg.uri>>) ELSE servers_arg

\* The options of the command; "summary" is the command without a flag.
Opts == {"poll", "flush", "reset_stats", "stats", "summary"}

\* The process after sys.exit(status), or after the return of command
\* (status 0), with what it printed to stdout and to stderr.
Exited(opts, out, err, status) ==
    [cli EXCEPT !.pc = "exit", !.opts = opts, !.out = out, !.err = err, !.rates = {},
                !.rows = <<>>, !.status = status, !.prev_entry = PyNone]

\* Every run of the command has a new Client: no connection, the initial
\* generation tag.
new_client ==
    /\ cli.pc # "poll"
    /\ current' = [current EXCEPT !["A"] = <<>>]

\* command, when the client is false: a message on stderr and sys.exit(1)
command_disabled(opts) ==
    /\ new_client
    /\ ~nonzero("A")
    /\ cli' = Exited(opts, <<>>, <<"memcaching is not enabled.">>, 1)
    /\ _client' = [_client EXCEPT !["A"] = FALSE]
    /\ destroyed' = FALSE
    /\ UNCHANGED <<servers, debug, store, nuuid, pc, nargs, call, up, stats>>

\* command --flush
command_flush ==
    /\ new_client
    /\ flush_hard_call("A")
    /\ cli' = Exited("flush", <<"memcached servers are flushed.">>, <<>>, 0)

\* command --reset-stats
command_reset_stats ==
    /\ new_client
    /\ nonzero("A")
    /\ reset_stats_call("A")
    /\ cli' = Exited("reset_stats", <<"memcached servers are stat reset.">>, <<>>, 0)

\* The process after an exception that command does not catch.
Crashed(opts) == Exited(opts, <<>>, <<"Traceback">>, 1)

\* No server of the client answers.
unreachable(c) == \A e \in Configured(c) : ~up[e]

\* command --flush when no server answers: an exception of flush_all or of
\* reset_stats ends the command; without one, flush returns and the
\* message is printed
command_flush_unanswered ==
    /\ new_client
    /\ nonzero("A")
    /\ unreachable("A")
    /\ \E failure \in native_failure :
           cli' = IF failure = "raises" THEN Crashed("flush")
                  ELSE Exited("flush", <<"memcached servers are flushed.">>, <<>>, 0)
    /\ _client' = [_client EXCEPT !["A"] = TRUE]
    /\ destroyed' = FALSE
    /\ UNCHANGED <<servers, debug, store, nuuid, pc, nargs, call, up, stats>>

\* command --reset-stats when no server answers
command_reset_stats_unanswered ==
    /\ new_client
    /\ nonzero("A")
    /\ unreachable("A")
    /\ \E failure \in native_failure :
           cli' = IF failure = "raises" THEN Crashed("reset_stats")
                  ELSE Exited("reset_stats", <<"memcached servers are stat reset.">>, <<>>, 0)
    /\ _client' = [_client EXCEPT !["A"] = TRUE]
    /\ destroyed' = FALSE
    /\ UNCHANGED <<servers, debug, store, nuuid, pc, nargs, call, up, stats>>

\* The servers of the pairs of a result of get_stats.
server_ids(result) == [i \in 1..Len(result) |-> result[i][1]]

\* command --stats: the dump of stats if it is not empty, and return. rows
\* holds the servers of the dump.
stats_done(result) ==
    IF result # <<>>
    THEN [Exited("stats", <<"dump_yaml(stats)">>, <<>>, 0) EXCEPT !.rows = server_ids(result)]
    ELSE Exited("stats", <<>>, <<>>, 0)

\* command without an option: the message and sys.exit(1) if stats is
\* empty, else the table with one row per pair of stats. rows holds the
\* servers of the rows; the other columns are not modelled.
summary_done(result) ==
    IF result = <<>>
    THEN Exited("summary", <<>>, <<"memcached servers are not responding.">>, 1)
    ELSE [Exited("summary", <<"CACHE SERVER UPTIME HITS MISSES HIT RATIO MEMORY USED">>, <<>>, 0)
             EXCEPT !.rows = server_ids(result)]

\* stats = memcache_client.get_stats() in command, then what the command
\* makes of it with --stats (opts is "stats") and without an option: an
\* exception of get_stats ends the command.
command_get_stats(opts) ==
    /\ new_client
    /\ nonzero("A")
    /\ \E failure \in native_failure :
           cli' = IF failure = "raises" /\ ~reachable("A") THEN Crashed(opts)
                  ELSE IF opts = "stats" THEN stats_done(get_stats_result("A"))
                  ELSE summary_done(get_stats_result("A"))
    /\ _client' = [_client EXCEPT !["A"] = TRUE]
    /\ destroyed' = FALSE
    /\ UNCHANGED <<servers, debug, store, nuuid, pc, nargs, call, up, stats>>

command_stats == command_get_stats("stats")

command_summary == command_get_stats("summary")

\* A rate that divides by the seconds of the interval option.
per_sec_of_interval(n, dt) == [num |-> n, den |-> 1]

\* n / dt for a dt in units of the clock, as the fraction num / den of a
\* number per second
per_sec(n, dt) == [num |-> n * UnitsPerSecond, den |-> dt]

\* dict(client.get_stats()): the counters of each server that answers
stats_dict(c) == [e \in {x \in Configured(c) : up[x]} |-> stats.n[e]]

\* The lines poll prints for an entry (t, sample): none without a previous
\* entry; else one per server of the sample that the previous sample has
\* too, with the differences of cmd_get and cmd_set over t - prev_t
poll_lines(prev_entry, t, sample) ==
    IF prev_entry = PyNone THEN {}
    ELSE LET dt == t - prev_entry.t
             prev_stats == prev_entry.stats
         IN  {[instance |-> e,
               gets_per_sec |-> per_sec(sample[e].cmd_get - prev_stats[e].cmd_get, dt),
               sets_per_sec |-> per_sec(sample[e].cmd_set - prev_stats[e].cmd_set, dt)] :
                 e \in DOMAIN sample \cap DOMAIN prev_stats}

\* command --poll, to the loop of poll: the header is printed
command_poll ==
    /\ new_client
    /\ nonzero("A")
    /\ cli' = [cli EXCEPT !.pc = "poll", !.opts = "poll", !.out = <<"SERVER GET/s SET/s">>,
                          !.err = <<>>, !.rates = {}, !.rows = <<>>, !.status = -1,
                          !.prev_entry = PyNone,
                          !.now = 0]
    /\ _client' = [_client EXCEPT !["A"] = FALSE]
    /\ destroyed' = FALSE
    /\ UNCHANGED <<servers, debug, store, nuuid, pc, nargs, call, up, stats>>

\* One round of the loop of poll, dt units of time after the round before:
\* get_stats, the rate lines, prev_entry = entry. An exception of get_stats
\* ends the command.
poll_tick ==
    /\ cli.pc = "poll"
    /\ \E dt \in 1..MaxTime, failure \in native_failure :
           LET t == cli.now + dt
               sample == stats_dict("A")
           IN  /\ t <= MaxTime
               /\ IF failure = "raises" /\ ~reachable("A")
                  THEN cli' = [Crashed("poll") EXCEPT !.now = t]
                  ELSE cli' = [cli EXCEPT !.out = <<>>,
                                          !.rates = poll_lines(cli.prev_entry, t, sample),
                                          !.prev_entry = [t |-> t, stats |-> sample],
                                          !.now = t]
    /\ _client' = [_client EXCEPT !["A"] = TRUE]
    /\ destroyed' = FALSE
    /\ UNCHANGED <<servers, debug, current, store, nuuid, pc, nargs, call, up, stats>>

(***************************************************************************)
(* The system.                                                             *)
(***************************************************************************)
\* The state after construction; W0 is built with servers=None or with
\* servers=[].
InitWith(disabled) ==
    /\ \E none \in disabled :
           servers = [c \in Clients |-> IF c = "W0" THEN none ELSE PyList(<<Endpoint>>)]
    /\ \E d \in BOOLEAN : debug = [c \in Clients |-> d]
    /\ current = [c \in Clients |-> <<>>]
    /\ _client = [c \in Clients |-> FALSE]
    /\ store = << >>
    /\ nuuid = 0
    /\ pc = [w \in Wrappers |-> "idle"]
    /\ nargs = [w \in Wrappers |-> 0]
    /\ call = Call("none", "W0", 0, NoVal, <<>>, 0)
    /\ up = [e \in Endpoints |-> TRUE]
    /\ stats = [observed |-> FALSE, n |-> [e \in Endpoints |-> stats_baseline]]
    /\ cli = NoCommand(PyNone)
    /\ destroyed = FALSE

Init == InitWith({PyNone})

InitDisabled == InitWith({PyNone, PyList(<<>>)})

\* Callers of the Client API in two processes: A uses all of it; B, which
\* sets, gets, deletes and hard flushes, stays on the initial generation tag.
Next ==
    \/ \E c \in DirectClients, key \in Keys, val \in Values : set(c, key, val, 0, 0)
    \/ \E c \in DirectClients, key \in Keys : get(c, key)
    \/ \E c \in DirectClients, key \in Keys : delete(c, key)
    \/ \E c \in DirectClients : flush_hard(c)
    \/ flush_soft("A")
    \/ test_servers("A")

\* One caller of the Client API, with keys at and beyond the store's limit.
NextKeys ==
    \/ \E key \in LongKeys : set("A", key, PyInt(1), 0, 0)
    \/ \E key \in LongKeys : get("A", key)
    \/ \E key \in LongKeys : delete("A", key)
    \/ flush_soft("A")

\* Callers of the memoized function in two processes, of which W1 also
\* forgets and W2 stays on the initial generation tag, and an administrator's
\* hard flush.
NextMemo ==
    \/ \E w \in EnabledWrappers, a \in Args : wrapper(w, a)
    \/ \E w \in EnabledWrappers : wrapper_miss(w)
    \/ forget("W1")
    \/ flush_hard("A")

\* Callers of the memoized function, memcaching enabled (W1) and not (W0).
NextDisabled ==
    \/ \E w \in {"W0", "W1"}, a \in Args : wrapper(w, a)
    \/ \E w \in {"W0", "W1"} : wrapper_miss(w)
    \/ \E w \in {"W0", "W1"}, a \in Args : wrapper_disabled(w, a)
    \/ \E w \in {"W0", "W1"} : forget(w)

\* A client with two endpoints, each of which may stop answering and answer
\* again, and its caller, who probes the servers between other requests.
InitProbe ==
    /\ servers = [c \in Clients |->
                      IF c = "W0" THEN PyNone
                      ELSE IF c = "A" THEN PyList(<<Endpoint, Endpoint2>>)
                      ELSE PyList(<<Endpoint>>)]
    /\ \E d \in BOOLEAN : debug = [c \in Clients |-> d]
    /\ current = [c \in Clients |-> <<>>]
    /\ _client = [c \in Clients |-> FALSE]
    /\ store = << >>
    /\ nuuid = 0
    /\ pc = [w \in Wrappers |-> "idle"]
    /\ nargs = [w \in Wrappers |-> 0]
    /\ call = Call("none", "W0", 0, NoVal, <<>>, 0)
    /\ up = [e \in Endpoints |-> TRUE]
    /\ stats = [observed |-> FALSE, n |-> [e \in Endpoints |-> stats_baseline]]
    /\ cli = NoCommand(PyNone)
    /\ destroyed = FALSE

NextProbe ==
    \/ test_servers("A")
    \/ \E e \in Endpoints : endpoint_fails(e)
    \/ \E e \in Endpoints : endpoint_recovers(e)
    \/ set("A", KeyDotUnd, PyInt(1), 0, 0)
    \/ get("A", KeyDotUnd)
    \/ flush_soft("A")

\* A client without servers (B, built with None or with []), a client (A)
\* and a memoized function (W1) whose server stops answering and answers
\* again, and their callers.
InitFail ==
    /\ \E none \in {PyNone, PyList(<<>>)} :
           servers = [c \in Clients |->
                         IF c \in {"B", "W0"} THEN none ELSE PyList(<<Endpoint>>)]
    /\ \E d \in BOOLEAN : debug = [c \in Clients |-> d]
    /\ current = [c \in Clients |-> <<>>]
    /\ _client = [c \in Clients |-> FALSE]
    /\ store = << >>
    /\ nuuid = 0
    /\ pc = [w \in Wrappers |-> "idle"]
    /\ nargs = [w \in Wrappers |-> 0]
    /\ call = Call("none", "W0", 0, NoVal, <<>>, 0)
    /\ up = [e \in Endpoints |-> TRUE]
    /\ stats = [observed |-> FALSE, n |-> [e \in Endpoints |-> stats_baseline]]
    /\ cli = NoCommand(PyNone)
    /\ destroyed = FALSE

NextFail ==
    \/ \E val \in Values : set("A", KeyDotUnd, val, 0, 0)
    \/ get("A", KeyDotUnd)
    \/ delete("A", KeyDotUnd)
    \/ \E c \in DirectClients, val \in Values : set_unanswered(c, KeyDotUnd, val, 0, 0)
    \/ \E c \in DirectClients : get_unanswered(c, KeyDotUnd)
    \/ \E c \in DirectClients : delete_unanswered(c, KeyDotUnd)
    \/ endpoint_fails(Endpoint)
    \/ endpoint_recovers(Endpoint)
    \/ \E a \in Args : wrapper("W1", a)
    \/ wrapper_miss("W1")
    \/ \E a \in Args : wrapper_get_raises("W1", a)
    \/ \E a \in Args : wrapper_get_unanswered("W1", a)
    \/ wrapper_miss_unanswered("W1")

\* A client with two servers whose counters are kept, and its caller.
InitStats ==
    /\ servers = [c \in Clients |->
                      IF c = "W0" THEN PyNone
                      ELSE IF c = "A" THEN PyList(<<Endpoint, Endpoint2>>)
                      ELSE PyList(<<Endpoint>>)]
    /\ \E d \in BOOLEAN : debug = [c \in Clients |-> d]
    /\ current = [c \in Clients |-> <<>>]
    /\ _client = [c \in Clients |-> FALSE]
    /\ store = << >>
    /\ nuuid = 0
    /\ pc = [w \in Wrappers |-> "idle"]
    /\ nargs = [w \in Wrappers |-> 0]
    /\ call = Call("none", "W0", 0, NoVal, <<>>, 0)
    /\ up = [e \in Endpoints |-> TRUE]
    /\ stats = [observed |-> TRUE, n |-> [e \in Endpoints |-> stats_baseline]]
    /\ cli = NoCommand(PyNone)
    /\ destroyed = FALSE

NextStats ==
    \/ \E key \in Keys : set("A", key, PyInt(1), 0, 0)
    \/ \E key \in Keys : get("A", key)
    \/ flush_hard("A")
    \/ flush_soft("A")
    \/ reset_stats("A")
    \/ get_stats("A")

\* The memcache command, run again and again on one configuration, while
\* another process (B) uses the first server and the servers fail and
\* recover.
InitCli ==
    /\ \E memcached_uri \in ConfigUris :
           /\ cli = NoCommand(memcached_uri)
           /\ servers = [c \in Clients |->
                             IF c = "W0" THEN PyNone
                             ELSE IF c = "A" THEN init_servers(memcached_uri)
                             ELSE PyList(<<Endpoint>>)]
    /\ debug = [c \in Clients |-> FALSE]
    /\ current = [c \in Clients |-> <<>>]
    /\ _client = [c \in Clients |-> FALSE]
    /\ store = << >>
    /\ nuuid = 0
    /\ pc = [w \in Wrappers |-> "idle"]
    /\ nargs = [w \in Wrappers |-> 0]
    /\ call = Call("none", "W0", 0, NoVal, <<>>, 0)
    /\ up = [e \in Endpoints |-> TRUE]
    /\ stats = [observed |-> TRUE, n |-> [e \in Endpoints |-> stats_baseline]]
    /\ destroyed = FALSE

NextCli ==
    \/ \E opts \in Opts : command_disabled(opts)
    \/ command_flush
    \/ command_reset_stats
    \/ command_flush_unanswered
    \/ command_reset_stats_unanswered
    \/ command_stats
    \/ command_summary
    \/ command_poll
    \/ poll_tick
    \/ set("B", KeyDotUnd, PyInt(1), 0, 0)
    \/ get("B", KeyDotUnd)
    \/ flush_hard("B")
    \/ \E e \in Endpoints : endpoint_fails(e)
    \/ \E e \in Endpoints : endpoint_recovers(e)

\* Two processes that set, get and delete the same keys, of which A also
\* makes soft flushes.
NextDelete ==
    \/ \E c \in DirectClients, key \in Keys, val \in Values : set(c, key, val, 0, 0)
    \/ \E c \in DirectClients, key \in Keys : get(c, key)
    \/ \E c \in DirectClients, key \in Keys : delete_recorded(c, key)
    \/ flush_soft("A")

\* One caller of every operation of the Client API, on two servers whose
\* counters are read.
NextTag ==
    \/ \E key \in Keys : set("A", key, PyInt(1), 0, 0)
    \/ \E key \in Keys : get("A", key)
    \/ \E key \in Keys : delete("A", key)
    \/ flush_hard("A")
    \/ flush_soft("A")
    \/ reset_stats("A")
    \/ get_stats("A")
    \/ test_servers("A")

\* Two processes on one store, each of which sets, gets and makes soft
\* flushes.
NextShared ==
    \/ \E c \in DirectClients, key \in Keys : set(c, key, PyInt(1), 0, 0)
    \/ \E c \in DirectClients, key \in Keys : get(c, key)
    \/ \E c \in DirectClients : flush_soft(c)

Spec == Init /\ [][Next]_vars

SpecShared == Init /\ [][NextShared]_vars

SpecTag == InitStats /\ [][NextTag]_vars

SpecDelete == Init /\ [][NextDelete]_vars

SpecCli == InitCli /\ [][NextCli]_vars

SpecStats == InitStats /\ [][NextStats]_vars

SpecFail == InitFail /\ [][NextFail]_vars

SpecProbe == InitProbe /\ [][NextProbe]_vars

SpecKeys == Init /\ [][NextKeys]_vars

SpecMemo == Init /\ [][NextMemo]_vars

SpecDisabled == InitDisabled /\ [][NextDisabled]_vars

(***************************************************************************)
(* What the claims speak of.                                               *)
(***************************************************************************)
\* What get(key) of client c returns in this state, and in the next.
Get(c, key) == get_result(store, debug[c], current[c], key)
GetNext(c, key) == get_result(store', debug'[c], current'[c], key)

\* The qualified and the physical key of client c for a logical key.
QKey(c, key) == qualified_key(current[c], key)
Phys(c, key) == hashed_key(debug[c], current[c], key)

\* The entry found at the physical key of (c, key).
Found(c, key) == server_get(store, Phys(c, key))

\* The entry is a pair that embeds the qualified key.
IsPairFor(entry, qkey) ==
    /\ entry.type = "tuple"
    /\ Len(entry.items) = 2
    /\ entry.items[1] = PyStr(qkey)

\* The step leaves what get returns as it was, for every client outside
\* flushed and every key whose physical key is outside touched.
Undisturbed(touched, flushed) ==
    \A c \in DirectClients \ flushed, key \in Keys :
        Phys(c, key) \notin touched => GetNext(c, key) = Get(c, key)

\* A get goes from Miss to a value only in a step that is a set of the same
\* qualified key, and then to the value set.
OnlySetEndsMiss(c, key) ==
    (Get(c, key) = Miss /\ GetNext(c, key) # Miss)
        => \E c2 \in DirectClients :
               current[c2] = current[c] /\ set(c2, key, GetNext(c, key), 0, 0)

(***************************************************************************)
(* Claims about the Client API (specification Spec).                       *)
(***************************************************************************)
C1_InitiallyMiss ==
    /\ Miss \notin Values
    /\ \A c \in DirectClients, key \in Keys : Get(c, key) = Miss

C1_MissBeforeSet == \A c \in DirectClients, key \in Keys : OnlySetEndsMiss(c, key)

C1_SetThenGet ==
    /\ \A c \in DirectClients, key \in Keys, val \in Values :
           set(c, key, val, 0, 0) =>
               GetNext(c, key) = val /\ Undisturbed({Phys(c, key)}, {})
    /\ \A c \in DirectClients, key \in Keys :
           get(c, key) => Undisturbed({}, {})
    /\ \A c \in DirectClients, key \in Keys :
           delete(c, key) => Undisturbed({Phys(c, key)}, {})
    /\ \A c \in DirectClients :
           flush_soft(c) => Undisturbed({}, {c})
    /\ \A c \in DirectClients :
           test_servers(c) =>
               Undisturbed({probe_key(i) : i \in 1..Len(servers[c].items)}, {})

\* C1: get(k) returns exactly the v of set(k, v), None included, right after
\* the set and after every further step that is no flush, delete or write to
\* the physical key of k; and get(k) returns the Miss sentinel, which no
\* storable value equals, from the start until a set of the qualified key
\* of k.
C1_RoundTrip == C1_InitiallyMiss /\ [][C1_SetThenGet /\ C1_MissBeforeSet]_vars

\* None was set and is what get returns, while another key of the client
\* still misses.
C1_Witness ==
    \E c \in DirectClients, key \in Keys, other \in Keys :
        /\ Get(c, key) = PyNone
        /\ Get(c, other) = Miss
        /\ _client[c]

C2_SoftFlushStep ==
    \A c \in DirectClients :
        flush_soft(c) =>
            /\ store' = store
            /\ \A key \in Keys :
                  /\ GetNext(c, key) = Miss
                  /\ \A c2 \in DirectClients \ {c} :
                        /\ GetNext(c2, key) = Get(c2, key)
                        /\ current[c2] = current[c] => GetNext(c2, key) = Get(c, key)

C2_MissUntilOwnSet ==
    \A c \in DirectClients, key \in Keys :
        (current[c] # <<>> /\ Get(c, key) = Miss /\ GetNext(c, key) # Miss)
            => \E val \in Values : set(c, key, val, 0, 0)

\* C2: a soft flush leaves the store as it is and makes every get of the
\* flushing client return Miss, while every other client, one still on the
\* old tag included, gets what it got before; and a client that has soft
\* flushed goes from Miss to a value for a key only by its own set of that
\* key, whatever soft flushes and other steps come in between.
C2_SoftFlush == [][C2_SoftFlushStep /\ C2_MissUntilOwnSet]_vars

\* A client has soft flushed and misses a key whose entry is still in the
\* store and still retrieved by the client on the old tag.
C2_Witness ==
    \E c \in DirectClients, c2 \in DirectClients, key \in Keys :
        /\ current[c] # <<>>
        /\ current[c2] = <<>>
        /\ Get(c, key) = Miss
        /\ Get(c2, key) \in Values
        /\ Phys(c2, key) \in DOMAIN store

C3_HardFlushStep ==
    \A c \in DirectClients :
        flush_hard(c) =>
            \A c2 \in DirectClients, key \in Keys : GetNext(c2, key) = Miss

C3_MissUntilSet == \A c \in DirectClients, key \in Keys : OnlySetEndsMiss(c, key)

\* C3: right after a hard flush by any client every get of every client
\* returns Miss, whatever its generation tag, and a get goes from Miss to a
\* value only by a set of the same qualified key.
C3_HardFlush == [][C3_HardFlushStep /\ C3_MissUntilSet]_vars

\* The last step was a hard flush that dropped entries: the store is empty
\* and every client, on the initial tag or on a newer one, misses every key.
C3_Witness ==
    /\ destroyed
    /\ store = << >>
    /\ \E c \in DirectClients : current[c] # <<>>
    /\ \E c \in DirectClients : current[c] = <<>>
    /\ \A c \in DirectClients, key \in Keys : Get(c, key) = Miss

C4_MissOnForeignEntry ==
    \A c \in DirectClients, key \in Keys :
        ~IsPairFor(Found(c, key), QKey(c, key)) => Get(c, key) = Miss

C4_OnlyOwnValues ==
    \A c \in DirectClients, key \in Keys :
        (GetNext(c, key) # Miss /\ GetNext(c, key) # Get(c, key))
            => \E c2 \in DirectClients :
                   current[c2] = current[c] /\ set(c2, key, GetNext(c, key), 0, 0)

\* C4: get returns Miss whenever the entry at the physical key is absent, is
\* no 2-element pair or embeds another qualified key; and a value that get
\* starts to return is the value passed to set with the same qualified key in
\* that step, whatever sets on colliding keys there are.
C4_NoForeignValue == []C4_MissOnForeignEntry /\ [][C4_OnlyOwnValues]_vars

\* One key of a client finds a pair that embeds another qualified key, and
\* one finds an entry that is no pair; both gets miss.
C4_Witness ==
    /\ \E c \in DirectClients, key \in Keys :
           /\ Found(c, key).type = "tuple"
           /\ Found(c, key).items[1] # PyStr(QKey(c, key))
           /\ Found(c, key).items[2] \in Values
           /\ Get(c, key) = Miss
    /\ \E c \in DirectClients, key \in Keys :
           /\ Found(c, key) = PyInt(1)
           /\ Get(c, key) = Miss

\* The entry stored under physical key k is a pair whose first component is
\* a qualified key with physical key k.
IsCacheEntry(k) ==
    /\ store[k].type = "tuple"
    /\ Len(store[k].items) = 2
    /\ store[k].items[1].type = "str"
    /\ key_hasher(debug["A"], store[k].items[1].chars) = k

\* The entry stored under k is the bare 1 of a test_servers probe, under one
\* of the random keys drawn so far.
IsProbe(k) ==
    /\ store[k] = PyInt(1)
    /\ \E n \in 1..nuuid : k = uuid4_hex(n)

\* C6 as stated: every entry in the store, those written by test_servers
\* included, is a pair whose first component is the qualified key whose
\* physical key it is stored under.
C6_AllEntriesArePairs == \A k \in DOMAIN store : IsCacheEntry(k)

\* C6, amended: every entry in the store is either such a pair, written by
\* Client.set, or the bare value 1 that test_servers wrote under one of its
\* random probe keys; and a set leaves such a pair under its physical key.
C6_SetEntriesArePairs ==
    /\ \A k \in DOMAIN store : IsCacheEntry(k) \/ IsProbe(k)
    /\ \A c \in DirectClients, key \in Keys :
           Get(c, key) # Miss =>
               /\ IsCacheEntry(Phys(c, key))
               /\ Found(c, key) = PyTuple(<<PyStr(QKey(c, key)), Get(c, key)>>)

\* The store holds a pair written by set, whose value is 1, and a bare 1
\* written by test_servers.
C6_Witness ==
    /\ \E c \in DirectClients, key \in Keys :
           /\ Found(c, key) = PyTuple(<<PyStr(QKey(c, key)), PyInt(1)>>)
    /\ \E k \in DOMAIN store : IsProbe(k)

(***************************************************************************)
(* Claims about the key codec (specification SpecKeys).                    *)
(***************************************************************************)
\* C5: in debug and in production mode the physical key that set, get and
\* delete send for any logical key, short or far longer than the limit, is at
\* most SERVER_MAX_KEY_LENGTH characters long, and so is every key in the
\* store.
C5_KeyLength ==
    /\ \A key \in LongKeys \cup Keys :
           Len(Phys("A", key)) <= SERVER_MAX_KEY_LENGTH
    /\ \A k \in DOMAIN store : Len(k) <= SERVER_MAX_KEY_LENGTH

\* In debug mode an entry is stored whose qualified key is longer than the
\* limit and whose physical key is exactly as long as the limit.
C5_Witness ==
    \E key \in LongKeys :
        /\ debug["A"]
        /\ Len(QKey("A", key)) > SERVER_MAX_KEY_LENGTH
        /\ Phys("A", key) \in DOMAIN store
        /\ Len(Phys("A", key)) = SERVER_MAX_KEY_LENGTH
        /\ Get("A", key) \in Values

(***************************************************************************)
(* Claims about the memoizer (specifications SpecMemo and SpecDisabled).   *)
(***************************************************************************)
\* The arguments for which func returns a value to cache.
CachedArgs == {a \in Args : func(a).type # "DoNotCache"}

\* What the client of wrapper w gets for argument a, now and next.
Cached(w, a) == get_result(store, debug[w], current[w], default_key(a))
CachedNext(w, a) == get_result(store', debug'[w], current'[w], default_key(a))

\* The step is a wrapper's set that puts another qualified key's entry where
\* the entry of (w, a) is.
Evicts(w, a) ==
    \E w2 \in EnabledWrappers :
        /\ wrapper_miss(w2)
        /\ call'.reqs # <<>>
        /\ call'.reqs[1].key = hashed_key(debug[w], current[w], default_key(a))
        /\ call'.reqs[1].val.items[1] # PyStr(qualified_key(current[w], default_key(a)))

C7_Step ==
    \A w \in EnabledWrappers :
        /\ \A a \in CachedArgs :
              /\ wrapper(w, a) =>
                    IF Cached(w, a) # Miss
                    THEN call'.calls = 0 /\ pc'[w] = "idle"
                    ELSE call'.calls = 0 /\ pc'[w] = "miss" /\ nargs'[w] = a
              /\ (Cached(w, a) # Miss /\ CachedNext(w, a) = Miss)
                    => forget(w) \/ flush_hard("A") \/ Evicts(w, a)
        /\ (wrapper_miss(w) /\ nargs[w] \in CachedArgs) =>
              /\ call'.calls = 1
              /\ CachedNext(w, nargs[w]) # Miss
              /\ \A a \in Args \ {nargs[w]} :
                    CachedNext(w, a) # Miss => Cached(w, a) # Miss

\* C7: a call with arguments whose result is cached does not invoke the
\* computation; a call with arguments that are not cached invokes it once and
\* leaves the result cached for these arguments and for no others; and a
\* cached result stays cached until a forget of the wrapper, a hard flush or
\* an eviction by a colliding entry.
C7_AtMostOnce == [][C7_Step]_vars

\* A wrapper that has the results for two argument sets cached has just
\* answered a call from the cache, without invoking the computation.
C7_Witness ==
    /\ call.op = "hit"
    /\ call.calls = 0
    /\ call.w \in EnabledWrappers
    /\ Cardinality(CachedArgs) >= 2
    /\ \A a \in CachedArgs : Cached(call.w, a) # Miss

\* The arguments for which func returns DoNotCache(x).
NotCachedArgs == Args \ CachedArgs

\* A value of the store that is, or is a tuple that holds, the value x.
Holds(v, x) == v = x \/ (v.type = "tuple" /\ \E i \in DOMAIN v.items : v.items[i] = x)

C8_Step ==
    \A w \in EnabledWrappers, a \in NotCachedArgs :
        /\ wrapper(w, a) => pc'[w] = "miss" /\ nargs'[w] = a
        /\ (wrapper_miss(w) /\ nargs[w] = a) =>
              /\ call'.result = func(a).result
              /\ call'.reqs = <<>>
              /\ call'.calls = 1
              /\ store' = store

C8_NeverStored ==
    \A a \in NotCachedArgs :
        /\ \A w \in EnabledWrappers : Cached(w, a) = Miss
        /\ \A k \in DOMAIN store :
              store[k].type = "tuple" =>
                  \A i \in DOMAIN store[k].items :
                      /\ ~Holds(store[k].items[i], func(a))
                      /\ ~Holds(store[k].items[i], func(a).result)

\* C8: when the computation returns DoNotCache(x) the wrapper returns x,
\* sends no set and leaves the store as it is; every call with these
\* arguments misses and invokes the computation; and neither the DoNotCache
\* object nor x is ever in the store.
C8_DoNotCache == [][C8_Step]_vars /\ []C8_NeverStored

\* The last call returned the inner value of a DoNotCache result without a
\* request, while the store holds the cached results of other arguments.
C8_Witness ==
    /\ call.op = "miss"
    /\ call.a \in NotCachedArgs
    /\ call.result = func(call.a).result
    /\ call.reqs = <<>>
    /\ pc[call.w] = "idle"
    /\ \E a \in CachedArgs : Cached(call.w, a) # Miss

C10_Step ==
    \A w \in EnabledWrappers :
        /\ (wrapper_miss(w) /\ nargs[w] \in CachedArgs) =>
              LET a == nargs[w]
                  r == func(a)
                  k == hashed_key(debug[w], current[w], default_key(a))
                  q == qualified_key(current[w], default_key(a))
              IN  /\ call'.result = r
                  /\ r # to_cache(r, a)
                  /\ call'.reqs =
                        <<ReqSet("shared", k, PyTuple(<<PyStr(q), to_cache(r, a)>>),
                                 decorator_args.time, decorator_args.min_compress_len)>>
                  /\ server_get(store', k) = PyTuple(<<PyStr(q), to_cache(r, a)>>)
        /\ \A a \in Args :
              (wrapper(w, a) /\ Cached(w, a) # Miss) =>
                  /\ call'.result = from_cache(Cached(w, a), a)
                  /\ call'.calls = 0
                  /\ call'.reqs = <<ReqGet("shared", hashed_key(debug[w], current[w], default_key(a)))>>
                  /\ store' = store

\* C10: on a miss with a result r that is no DoNotCache the wrapper sends
\* one set of to_cache(r, args) with the decorator's time and
\* min_compress_len, the store then holds it, and the caller gets r itself;
\* on a hit with stored value s the caller gets from_cache(s, args), the
\* computation is not invoked and only a get is sent.
C10_Protocol == [][C10_Step]_vars

\* The last call was a hit that returned the computation's result, decoded by
\* from_cache from the stored to_cache form.
C10_Witness ==
    /\ call.op = "hit"
    /\ call.a \in CachedArgs
    /\ call.result = func(call.a)
    /\ Cached(call.w, call.a) = to_cache(func(call.a), call.a)
    /\ call.result # Cached(call.w, call.a)

C9_Step ==
    /\ \A a \in Args :
          /\ ~wrapper("W0", a)
          /\ wrapper_disabled("W0", a) =>
                /\ call'.result = func(a)
                /\ call'.calls = 1
                /\ call'.reqs = <<>>
                /\ store' = store
                /\ _client' = _client
    /\ ~wrapper_miss("W0")
    /\ forget("W0") => store' = store /\ _client' = _client

C9_NoCacheIO ==
    /\ ~nonzero("W0")
    /\ _client["W0"] = FALSE
    /\ pc["W0"] = "idle"
    /\ call.w = "W0" => call.op \in {"none", "disabled"} /\ call.reqs = <<>>

\* C9: a wrapper built with servers=None or servers=[] takes the uncached
\* path in every call: it invokes the computation once, returns its result
\* as it is, sends no request and creates no connection, and its forget()
\* touches neither the store nor the connection.
C9_Disabled == [][C9_Step]_vars /\ []C9_NoCacheIO

\* The wrapper built with an empty server list has forgotten and has then
\* returned the computation's DoNotCache object as it is, with no connection.
C9_Witness ==
    /\ servers["W0"] = PyList(<<>>)
    /\ current["W0"] # <<>>
    /\ call.op = "disabled"
    /\ call.w = "W0"
    /\ call.result = func(call.a)
    /\ is_DoNotCache(call.result)
    /\ _client["W0"] = FALSE

(***************************************************************************)
(* Claims about the memoizer against direct calls (specification           *)
(* SpecDisabled: W1 caches, W0 does not).                                   *)
(***************************************************************************)
\* The value a computation hands to its caller: the result of a DoNotCache,
\* which is a signal to the wrapper, and any other result as it is.
payload(result) == IF is_DoNotCache(result) THEN result.result ELSE result

\* The step is one in which a call of the wrapper returns.
Returns == call' # call /\ call'.op \in {"hit", "miss", "disabled"}

C12_ForgetStep ==
    forget("W1") =>
        /\ store' = store
        /\ call' = call
        /\ _client' = _client
        /\ current'["W1"] # current["W1"]
        /\ \A w \in EnabledWrappers \ {"W1"} :
              current'[w] = current[w] /\ current'[w] # current'["W1"]
        /\ \A a \in Args : CachedNext("W1", a) = Miss

C12_MissInvokes ==
    /\ \A a \in Args :
          /\ (wrapper("W1", a) /\ Cached("W1", a) = Miss) =>
                /\ call'.op = "get"
                /\ call'.calls = 0
                /\ pc'["W1"] = "miss"
                /\ nargs'["W1"] = a
          /\ (Cached("W1", a) = Miss /\ CachedNext("W1", a) # Miss) =>
                \E w \in EnabledWrappers :
                    current[w] = current["W1"] /\ wrapper_miss(w) /\ nargs[w] = a
    /\ wrapper_miss("W1") => call'.calls = 1 /\ call'.a = nargs["W1"]

\* C12: forget() of a wrapper sends no request and leaves the store, the
\* connection and the other wrappers as they are; it changes the wrapper's
\* generation tag to one no other wrapper has, after which no argument is
\* cached for this wrapper; and until a call of a wrapper with the same
\* generation tag has stored a result again, a call with these arguments
\* misses and invokes the computation once.
C12_Forget == [][C12_ForgetStep /\ C12_MissInvokes]_vars

\* The entry of the initial generation tag for an argument.
OldEntry(w, a) == server_get(store, hashed_key(debug[w], <<>>, default_key(a)))

\* The wrapper has forgotten, the entry it stored before is still in the
\* store, and its call with the same argument has missed and has invoked the
\* computation again.
C12_Witness ==
    /\ current["W1"] # <<>>
    /\ call.w = "W1"
    /\ call.op = "miss"
    /\ call.calls = 1
    /\ call.a \in CachedArgs
    /\ IsPairFor(OldEntry("W1", call.a), qualified_key(<<>>, default_key(call.a)))
    /\ Cached("W1", call.a) # Miss

(***************************************************************************)
(* Claims about test_servers (specification SpecProbe).                    *)
(***************************************************************************)
\* The requests of the step's probes are pairs of a set and a get of one
\* key on the connection of one configured endpoint, the endpoints taken in
\* their order and the keys different from each other;
\* only the last probe may lack its get, and only when the step raised.
OwnConnections(c, reqs, raised) ==
    LET probes == (Len(reqs) + 1) \div 2
    IN  /\ probes <= Len(servers[c].items)
        /\ (Len(reqs) % 2 = 1) => raised
        /\ \A i \in 1..probes :
              /\ reqs[2 * i - 1].cmd = "set"
              /\ reqs[2 * i - 1].conn = server_at(c, i)
              /\ reqs[2 * i - 1].conn # "shared"
              /\ \A j \in 1..probes : i # j => reqs[2 * i - 1].key # reqs[2 * j - 1].key
              /\ 2 * i <= Len(reqs) =>
                    /\ reqs[2 * i].cmd = "get"
                    /\ reqs[2 * i].conn = reqs[2 * i - 1].conn
                    /\ reqs[2 * i].key = reqs[2 * i - 1].key

\* An endpoint is in the returned set only if it answers and the store
\* holds, under the key of its probe, the value the probe set.
OnlyExactRoundTrips(c, reqs, result) ==
    \A e \in result.elems :
        \E i \in 1..(Len(reqs) \div 2) :
            /\ reqs[2 * i - 1].conn = e
            /\ up[e]
            /\ reqs[2 * i].key \in DOMAIN store'
            /\ store'[reqs[2 * i].key] = reqs[2 * i - 1].val

C13_Step ==
    \A c \in DirectClients :
        test_servers(c) =>
            /\ current' = current
            /\ _client' = _client
            /\ servers' = servers
            /\ call'.op = "test_servers"
            /\ OwnConnections(c, call'.reqs, call'.result = Raised)
            /\ call'.result # Raised =>
                  /\ call'.result.type = "set"
                  /\ call'.result.elems \subseteq Configured(c)
                  /\ OnlyExactRoundTrips(c, call'.reqs, call'.result)

\* C13: test_servers leaves the generation tag, the connection handle and the
\* server list as they are; it sends each probe on the connection of its
\* own endpoint, under a key of its own; and an endpoint is in the returned
\* set only if it answers and the get of its probe key finds the value the
\* probe set.
C13_Probe == [][C13_Step]_vars

\* test_servers of a client with a connection has returned one of its two
\* endpoints and has left out the other.
C13_Witness ==
    /\ call.op = "test_servers"
    /\ call.w = "A"
    /\ _client["A"]
    /\ call.result.type = "set"
    /\ call.result.elems = {Endpoint2}
    /\ Len(call.reqs) = 4
    /\ DOMAIN store # {}

\* C14: test_servers probes every configured endpoint whether or not an
\* earlier one answers, and returns the set of the endpoints that answer.
C14_ToleratesFailure ==
    [][\A c \in DirectClients :
           test_servers(c) =>
               /\ call'.result # Raised
               /\ Len(call'.reqs) = 2 * Len(servers[c].items)
               /\ call'.result = PySet({e \in Configured(c) : up[e]})]_vars

(***************************************************************************)
(* Claims about requests that fail (specification SpecFail).               *)
(***************************************************************************)
\* The step is a set, get or delete of a client that no server answered.
ClientRequestReturns ==
    call' # call /\ call'.op \in {"Client.set", "Client.get", "Client.delete"}

\* C15: a set, get or delete of a client built with None or with an empty
\* server list ends with an error for its caller; it never returns Miss or
\* returns as if the write had been made.
C15_DisabledRaises ==
    [][(ClientRequestReturns /\ ~nonzero(call'.w)) => call'.result = Raised]_vars

C17_Step ==
    /\ \A a \in Args :
          wrapper_get_raises("W1", a) =>
              /\ call'.result = Raised
              /\ call'.calls = 0
              /\ call'.reqs = <<get_request(debug["W1"], current["W1"], default_key(a))>>
              /\ store' = store
              /\ pc'["W1"] = "idle"
    /\ (call' # call /\ call'.op # "test_servers") => Len(call'.reqs) <= 1
    /\ (call' # call /\ call'.result = Raised) =>
          /\ store' = store
          /\ call'.w \in Wrappers => pc'[call'.w] = "idle"
          /\ ~answered(call'.w)

\* C17: when client.get raises in a call of the wrapper, the call ends with
\* the exception, the computation is not invoked and no set is sent; no step
\* of a client or of the wrapper sends a request twice; and a step that ends
\* with an exception leaves the store as it is and, in a wrapper, no call in
\* progress.
C17_Propagates == [][C17_Step]_vars

\* A call of the wrapper has ended with the exception of its get, without a
\* call of the computation, while the store holds a result cached before.
C17_Witness ==
    /\ call.op = "raise"
    /\ call.w = "W1"
    /\ call.result = Raised
    /\ call.calls = 0
    /\ Len(call.reqs) = 1
    /\ pc["W1"] = "idle"
    /\ Cached("W1", call.a) # Miss

(***************************************************************************)
(* Claims about the statistics (specification SpecStats).                  *)
(***************************************************************************)
\* The counters of every server of client c are at their values after a
\* 'stats reset'.
AtBaseline(st, c) == \A e \in Configured(c) : st.n[e] = stats_baseline

C18_Step ==
    reset_stats("A") =>
        /\ AtBaseline(stats', "A")
        /\ \A e \in Endpoints \ Configured("A") : stats'.n[e] = stats.n[e]
        /\ store' = store
        /\ current' = current
        /\ \A key \in Keys : GetNext("A", key) = Get("A", key)

\* C18: reset_stats sets the counters of every configured server to their
\* values after a reset and leaves the store and the generation tag as they
\* are: every get returns after it what it returned before.
C18_ResetStats == [][C18_Step]_vars

\* After a soft flush and sets before and after it, the counters of both
\* servers have been reset while the entry set last is still found.
C18_Witness ==
    /\ AtBaseline(stats, "A")
    /\ current["A"] # <<>>
    /\ \E key \in Keys : Get("A", key) = PyInt(1)
    /\ Cardinality(DOMAIN store) >= 2

(***************************************************************************)
(* Claims about the memcache command (specification SpecCli).              *)
(***************************************************************************)
C16_Truth ==
    nonzero("A") <=>
        \/ cli.config.type = "str"
        \/ cli.config.type = "list" /\ Len(cli.config.items) >= 1

C16_Step ==
    (cli' # cli /\ (cli.config = PyNone \/ cli.config = PyList(<<>>))) =>
        /\ cli'.pc = "exit"
        /\ cli'.status # 0
        /\ cli'.err = <<"memcaching is not enabled.">>
        /\ cli'.out = <<>>
        /\ store' = store
        /\ stats' = stats
        /\ nuuid' = nuuid
        /\ ~_client'["A"]

\* C16: the client of the command is false exactly when memcached_uri is
\* None or an empty list, and true when it names at least one server; with
\* a false client every run of the command, whatever its option, ends with
\* "memcaching is not enabled." on stderr and a status other than 0, and
\* leaves the store, the counters of the servers and the connection of the
\* client as they are.
C16_Falsy == []C16_Truth /\ [][C16_Step]_vars

\* The command --flush has ended with status 1 on an empty list of servers
\* while the store holds an entry of another process.
C16_Witness ==
    /\ cli.config = PyList(<<>>)
    /\ cli.pc = "exit"
    /\ cli.opts = "flush"
    /\ cli.status = 1
    /\ store # << >>
    /\ ~nonzero("A")

\* The effect of a hard flush of client c: no entry is left, the counters
\* of the servers of c are those after a reset, the count of flush_all
\* included, and the counters of the other servers are as before.
HardFlushed(c) ==
    /\ store' = << >>
    /\ AtBaseline(stats', c)
    /\ \A e \in Endpoints \ Configured(c) : stats'.n[e] = stats.n[e]
    /\ \A key \in Keys : GetNext(c, key) = Miss

C19_Step ==
    /\ \A c \in Clients : flush_hard(c) => HardFlushed(c)
    /\ command_flush =>
          /\ HardFlushed("A")
          /\ cli'.pc = "exit"
          /\ cli'.status = 0
          /\ cli'.out = <<"memcached servers are flushed.">>

\* C19: flush(hard=True), and the command --flush, which calls it, leave no
\* entry on the servers and leave the counters of every configured server at
\* their values after a reset; the reset comes after flush_all, so that the
\* counter of flush commands is at its value after a reset too.
C19_HardFlush == [][C19_Step]_vars

\* The command --flush has ended with status 0 on two servers and has
\* destroyed an entry; the counters of the two servers are reset.
C19_Witness ==
    /\ cli.pc = "exit"
    /\ cli.opts = "flush"
    /\ cli.status = 0
    /\ cli.config = PyList(<<Endpoint, Endpoint2>>)
    /\ destroyed
    /\ store = << >>
    /\ AtBaseline(stats, "A")

\* The rate r, a fraction of a number per second, is diff over dt units of
\* the clock, that is over dt / UnitsPerSecond seconds.
C20_RateIs(r, diff, dt) == r.den > 0 /\ r.num * dt = diff * UnitsPerSecond * r.den

C20_Step ==
    (cli.pc = "poll" /\ cli'.pc = "poll" /\ cli' # cli) =>
        LET prev == cli.prev_entry
            cur == cli'.prev_entry
        IN  /\ cur # PyNone
            /\ cur.t = cli'.now
            /\ cur.t > cli.now
            /\ \A e \in DOMAIN cur.stats : cur.stats[e] = stats.n[e]
            /\ prev = PyNone => cli'.rates = {}
            /\ prev # PyNone =>
                  LET both == DOMAIN cur.stats \cap DOMAIN prev.stats
                  IN  /\ \A line \in cli'.rates : line.instance \in both
                      /\ Cardinality(cli'.rates) = Cardinality(both)
                      /\ \A e \in both :
                            \E line \in cli'.rates :
                                /\ line.instance = e
                                /\ C20_RateIs(line.gets_per_sec,
                                          cur.stats[e].cmd_get - prev.stats[e].cmd_get,
                                          cur.t - prev.t)
                                /\ C20_RateIs(line.sets_per_sec,
                                          cur.stats[e].cmd_set - prev.stats[e].cmd_set,
                                          cur.t - prev.t)

\* C20: the first round of poll prints no rate line and keeps its sample;
\* every later round prints, for each server of its sample that the sample
\* before has too, and for no other, one line whose rates of gets and of
\* sets are the differences of cmd_get and of cmd_set between the two
\* samples over the seconds between them, and keeps its sample and its time
\* for the next round. cmd_get 100 and then 150 one second later is 50 per
\* second.
C20_PollRates ==
    /\ [][C20_Step]_vars
    /\ [](LET r == per_sec(150 - 100, 1 * UnitsPerSecond)
          IN  r.den > 0 /\ r.num = 50 * r.den)

\* A round of poll has printed a rate of gets other than 0 over a time other
\* than one second, and no line for a server that the sample before lacks.
C20_Witness ==
    /\ cli.pc = "poll"
    /\ cli.prev_entry # PyNone
    /\ \E line \in cli.rates :
          /\ line.gets_per_sec.num > 0
          /\ line.gets_per_sec.den # UnitsPerSecond
    /\ Cardinality(cli.rates) < Cardinality(DOMAIN cli.prev_entry.stats)

\* C21: when servers are configured and none of them answers, so that the
\* native client returns nothing where it does not raise, every run of the
\* command, whatever its option, ends with "memcached servers are not
\* responding." on stderr and a status other than 0.
C21_NotResponding ==
    [][(/\ cli' # cli
        /\ nonzero("A")
        /\ unreachable("A")
        /\ cli'.err # <<"Traceback">>)
       => (/\ cli'.pc = "exit"
           /\ cli'.status # 0
           /\ cli'.err = <<"memcached servers are not responding.">>)]_vars

(***************************************************************************)
(* Claims about the qualified key (specification SpecKeys).                *)
(***************************************************************************)
C22_Keys == Keys \cup LongKeys

C22_PerKey ==
    \A c \in Clients : \A k1, k2 \in C22_Keys :
        k1 # k2 => qualified_key(current[c], k1) # qualified_key(current[c], k2)

C22_PerTag ==
    \A c \in Clients : \A key \in C22_Keys :
        current'[c] # current[c] =>
            qualified_key(current'[c], key) # qualified_key(current[c], key)

\* C22: under the generation tag of a client two different logical keys
\* have different qualified keys, and a step that changes the generation
\* tag of a client changes the qualified key of every logical key.
C22_Distinct == []C22_PerKey /\ [][C22_PerTag]_vars

\* After two soft flushes the client is on its third generation tag and
\* finds an entry set under it, while the store holds another entry.
C22_Witness ==
    /\ nuuid = 2
    /\ current["A"] # <<>>
    /\ Cardinality(DOMAIN store) >= 2
    /\ \E key \in LongKeys : get_result(store, debug["A"], current["A"], key) # Miss

(***************************************************************************)
(* Claims about delete (specification SpecDelete).                         *)
(***************************************************************************)
C23_Step ==
    \A c \in DirectClients, key \in Keys :
        /\ delete_recorded(c, key) =>
              /\ call'.reqs = <<delete_request(debug[c], current[c], key)>>
              /\ call'.result = PyNone
              /\ GetNext(c, key) = Miss
              /\ Phys(c, key) \notin DOMAIN store => store' = store
              /\ \A k \in DOMAIN store \ {Phys(c, key)} :
                    k \in DOMAIN store' /\ store'[k] = store[k]
              /\ DOMAIN store' = DOMAIN store \ {Phys(c, key)}
              /\ current' = current
        /\ OnlySetEndsMiss(c, key)

\* C23: delete(k) sends one delete, of the physical key of k under the
\* generation tag of the client, and returns None; it removes the entry of
\* that physical key and no other, so that get(k) of the client returns
\* Miss, and goes on returning Miss until a step that sets k under the same
\* tag; where the store has no entry of the physical key, delete returns
\* all the same and the store is as before.
C23_Delete == [][C23_Step]_vars

\* After a soft flush, a set and a delete of A under the new tag, the key is
\* a miss for A while the store still holds an entry.
C23_Witness ==
    /\ call.op = "Client.delete"
    /\ call.w = "A"
    /\ current["A"] # <<>>
    /\ \E key \in Keys :
          /\ call.reqs = <<delete_request(debug["A"], current["A"], key)>>
          /\ Get("A", key) = Miss
    /\ store # << >>

(***************************************************************************)
(* Claims about the generation tag (specification SpecTag).                *)
(***************************************************************************)
C24_Initially == \A c \in Clients : current[c] = <<>>

C24_Step ==
    /\ \A c \in Clients : current'[c] # current[c] => flush_soft(c)
    /\ \A key \in Keys : set("A", key, PyInt(1), 0, 0) => current' = current
    /\ \A key \in Keys : get("A", key) => current' = current
    /\ \A key \in Keys : delete("A", key) => current' = current
    /\ flush_hard("A") => current' = current
    /\ get_stats("A") => current' = current
    /\ reset_stats("A") => current' = current
    /\ test_servers("A") => current' = current
    /\ \A c \in Clients :
          flush_soft(c) =>
              /\ current'[c] # current[c]
              /\ \A c2 \in Clients \ {c} : current'[c2] = current[c2]
              /\ store' = store
              /\ stats' = stats
              /\ call' = call
              /\ _client' = _client
              /\ servers' = servers /\ debug' = debug

\* C24: the generation tag of every client is the empty string at first;
\* a step changes the tag of a client only if it is a flush(hard=False) of
\* that client: set, get, delete, flush(hard=True), get_stats, reset_stats
\* and test_servers leave it as it is; and flush(hard=False) changes the
\* tag of its client and nothing else: no request is sent, no connection is
\* made, and the store and the counters of the servers are as before.
C24_Tag == C24_Initially /\ [][C24_Step]_vars

\* The client is on the tag of its second soft flush, with an entry in the
\* store and a counter off its baseline: neither was touched by the flush.
C24_Witness ==
    /\ nuuid = 2
    /\ current["A"] = flush_tag(debug["A"], 2)
    /\ store # << >>
    /\ ~AtBaseline(stats, "A")
    /\ _client["A"]

(***************************************************************************)
(* Claims about two clients on one store (specification SpecShared).       *)
(***************************************************************************)
C25_Step ==
    \A c \in DirectClients :
        flush_soft(c) =>
            \A c2 \in Clients \ {c} :
                /\ current'[c2] = current[c2]
                /\ \A key \in Keys :
                      /\ GetNext(c2, key) = Get(c2, key)
                      /\ hashed_key(debug'[c2], current'[c2], key) = Phys(c2, key)
                      /\ Phys(c2, key) \in DOMAIN store =>
                            /\ Phys(c2, key) \in DOMAIN store'
                            /\ store'[Phys(c2, key)] = store[Phys(c2, key)]

\* C25: in every interleaving of the sets, gets and soft flushes of two
\* clients on one store, a soft flush of one client leaves the generation
\* tag of the other, the physical key of each of its logical keys, the entry
\* at that physical key and so the result of each of its gets as they were.
C25_OnlyOwnClient == [][C25_Step]_vars

\* Both clients have made a soft flush, A after B; B still gets the value
\* it set under its tag, which A misses.
C25_Witness ==
    /\ nuuid = 2
    /\ current["B"] = flush_tag(debug["B"], 1)
    /\ current["A"] = flush_tag(debug["A"], 2)
    /\ \E key \in Keys :
          /\ Get("B", key) = PyInt(1)
          /\ Get("A", key) = Miss

(***************************************************************************)
(* Claims about wrappers that run at the same time (specification          *)
(* SpecMemo).                                                              *)
(***************************************************************************)
C26_Step ==
    \A w \in EnabledWrappers :
        /\ wrapper_miss(w) =>
              /\ call'.w = w
              /\ call'.a = nargs[w]
              /\ call'.calls = 1
              /\ call'.result = payload(func(nargs[w]))
        /\ \A a \in Args :
              (wrapper(w, a) /\ call'.op = "hit") =>
                  /\ call'.w = w
                  /\ call'.a = a
                  /\ call'.calls = 0
                  /\ call'.result = payload(func(a))

\* C26: in every interleaving of the steps of two wrappers of the same
\* function, each with a client of its own on the one store, a call that
\* returns, on a hit or after its own computation and set, returns the
\* result of the function for its arguments; the function may be invoked
\* by both for the same arguments.
C26_Correct == [][C26_Step]_vars

\* W2 has computed and returned the result for arguments for which W1 is
\* between its get, a miss, and its own computation, and the result is now
\* in the store.
C26_Witness ==
    /\ call.op = "miss"
    /\ call.w = "W2"
    /\ call.calls = 1
    /\ call.result = func(call.a)
    /\ pc["W1"] = "miss"
    /\ nargs["W1"] = call.a
    /\ Cached("W1", call.a) # Miss

====
